---- MODULE Spec2Model ----
(***************************************************************************)
(* Campus energy dashboard: the ingestion / validation / aggregation core  *)
(* of src/src/data_processor.py (class DataProcessor and the module-level  *)
(* aggregation functions), as a state machine.                             *)
(*                                                                         *)
(* A DataFrame is a record [cols, rows]: cols is the set of column names,  *)
(* rows the sequence of rows, each a function from cols to cells.          *)
(* A raw CSV cell is a tuple; <<>> is an empty or unparseable cell:        *)
(*   date           <<day, tod>>  day = days since Monday 2024-01-01,      *)
(*                                tod = time of day in ticks               *)
(*   kwh            <<v>>         the number v                             *)
(*   time           <<label>>     a time-slot label                        *)
(*   building_name  a tuple of characters                                  *)
(*   row_id         <<file, line>>  an extra column the pipeline does not  *)
(*                                recognise and carries along unchanged    *)
(* After coercion the date column holds timestamps in ticks (NaT for a     *)
(* parse failure) and the kwh column numbers (NaN for a parse failure).    *)
(***************************************************************************)
EXTENDS Integers, Sequences, FiniteSets, TLC

VARIABLES
    directory,        \* the *.csv files of data_dir, in discovery order
    df_combined,      \* DataProcessor.df_combined
    invalid_files,    \* DataProcessor.invalid_files
    processed_files,  \* DataProcessor.processed_files
    pc,               \* position of ingest_data: "idle", "loop", "aborted"
    csv_files,        \* ingest_data's local csv_files
    idx,              \* ingest_data's loop position in csv_files
    dataframes,       \* ingest_data's local dataframes
    validated,        \* names passed to read_and_validate_csv by this ingest_data
    log,              \* drop counts logged by the last read_and_validate_csv
    history,          \* the corpus returned by each completed ingest_data
    ret               \* the last completed call and the value it returned

vars == <<directory, df_combined, invalid_files, processed_files, pc, csv_files,
          idx, dataframes, validated, log, history, ret>>

(***************************************************************************)
(* Bounds of the model.                                                    *)
(***************************************************************************)
MaxFiles == 2

MaxFileRows == 1

MaxRows == 3

MaxRuns == 2

(***************************************************************************)
(* Values.                                                                 *)
(***************************************************************************)
TicksPerDay == 2

NaT == -1

NaN == -1000

None == [none |-> TRUE]

Raised == [raised |-> TRUE]

EmptyFrame == [cols |-> {}, rows |-> <<>>]

Range(s) == {s[i] : i \in DOMAIN s}

RECURSIVE SumSeq(_)
SumSeq(s) == IF s = <<>> THEN 0 ELSE s[1] + SumSeq(Tail(s))

(***************************************************************************)
(* Text: file names and building names are tuples of characters.           *)
(***************************************************************************)
Alphabet == << <<"a", "A">>, <<"b", "B">>, <<"c", "C">>, <<"d", "D">>,
               <<"e", "E">>, <<"g", "G">>, <<"i", "I">>, <<"l", "L">>,
               <<"m", "M">>, <<"n", "N">>, <<"s", "S">>, <<"u", "U">>,
               <<"v", "V">>, <<"x", "X">>, <<"y", "Y">> >>

IsLower(c) == \E i \in DOMAIN Alphabet : Alphabet[i][1] = c

IsUpper(c) == \E i \in DOMAIN Alphabet : Alphabet[i][2] = c

ToUpper(c) ==
    IF IsLower(c)
    THEN Alphabet[CHOOSE i \in DOMAIN Alphabet : Alphabet[i][1] = c][2]
    ELSE c

ToLower(c) ==
    IF IsUpper(c)
    THEN Alphabet[CHOOSE i \in DOMAIN Alphabet : Alphabet[i][2] = c][1]
    ELSE c

\* Path.stem: the name without its last suffix; a leading dot starts no suffix.
LastDot(name) ==
    IF \E i \in DOMAIN name : name[i] = "."
    THEN CHOOSE i \in DOMAIN name :
            name[i] = "." /\ \A j \in DOMAIN name : name[j] = "." => j <= i
    ELSE 0

Stem(name) ==
    IF LastDot(name) > 1 /\ LastDot(name) < Len(name)
    THEN SubSeq(name, 1, LastDot(name) - 1)
    ELSE name

\* str.replace('_', ' ')
ReplaceUnderscores(s) == [i \in DOMAIN s |-> IF s[i] = "_" THEN " " ELSE s[i]]

\* str.title(): a cased character is upper-cased when the character before it
\* is not cased, and lower-cased when it is.
Title(s) ==
    [i \in DOMAIN s |->
        IF i > 1 /\ (IsLower(s[i - 1]) \/ IsUpper(s[i - 1]))
        THEN ToLower(s[i])
        ELSE ToUpper(s[i])]

\* A variant that forgets the title-casing.
UntitledName(name) == ReplaceUnderscores(Stem(name))

BuildingNameOf(name) == Title(ReplaceUnderscores(Stem(name)))

FileNames == << <<"a", ".", "c", "s", "v">>,
                <<"b", "_", "c", ".", "c", "s", "v">>,
                <<"d", "2", "e", ".", "c", "s", "v">>,
                <<"e", "_", "2", ".", "c", "s", "v">>,
                <<"s", "c", "i", "e", "n", "c", "e", "_", "l", "a", "b", "_",
                   "2", ".", "c", "s", "v">>,
                <<"a", "d", "m", "i", "n", "_", "b", "u", "i", "l", "d", "i",
                   "n", "g", ".", "c", "s", "v">>,
                <<"L", "a", "b", "_", "a", "B", ".", "c", "s", "v">> >>

(***************************************************************************)
(* DataFrame operations used by the pipeline.                              *)
(***************************************************************************)
\* DataFrame.empty: an axis of length 0.
Empty(df) == df.cols = {} \/ df.rows = <<>>

\* pd.to_datetime(text, errors='coerce'): ticks since the epoch, or NaT.
ToDatetime(c) ==
    IF Len(c) = 2 /\ c[2] \in 0..(TicksPerDay - 1)
    THEN c[1] * TicksPerDay + c[2]
    ELSE NaT

\* pd.to_numeric(text, errors='coerce'): the number, or NaN.
ToNumeric(c) == IF Len(c) = 1 THEN c[1] ELSE NaN

\* Timestamp.date(): the calendar day of a timestamp.
DateOf(ts) == ts \div TicksPerDay

\* Series.dt.dayofweek: Monday = 0 (day 0 is a Monday).
DayOfWeek(ts) == DateOf(ts) % 7

CoerceDates(df) ==
    [df EXCEPT !.rows =
        [i \in DOMAIN df.rows |-> [df.rows[i] EXCEPT !["date"] = ToDatetime(@)]]]

CoerceKwh(df) ==
    [df EXCEPT !.rows =
        [i \in DOMAIN df.rows |-> [df.rows[i] EXCEPT !["kwh"] = ToNumeric(@)]]]

\* df[col].isna().sum()
CountNa(df, col, na) == Cardinality({i \in DOMAIN df.rows : df.rows[i][col] = na})

\* df[df[col].notna()]
NotNa(df, col, na) ==
    [df EXCEPT !.rows = SelectSeq(df.rows, LAMBDA r : r[col] # na)]

\* df[col] = value, for a column the frame does not have yet
AddColumn(df, col, value) ==
    [cols |-> df.cols \cup {col},
     rows |-> [i \in DOMAIN df.rows |->
                 [c \in df.cols \cup {col} |->
                     IF c = col THEN value ELSE df.rows[i][c]]]]

\* The cell pd.concat fills in for a column a frame does not have.
Missing(col) ==
    IF col \in {"date", "week_start"} THEN NaT
    ELSE IF col = "kwh" THEN NaN
    ELSE <<>>

Reindex(row, cols) ==
    [c \in cols |-> IF c \in DOMAIN row THEN row[c] ELSE Missing(c)]

\* A variant that puts the rows of a later table first.
RECURSIVE ConcatRowsReversed(_, _)
ConcatRowsReversed(frames, cols) ==
    IF frames = <<>>
    THEN <<>>
    ELSE ConcatRowsReversed(Tail(frames), cols)
            \o [i \in DOMAIN frames[1].rows |-> Reindex(frames[1].rows[i], cols)]

RECURSIVE ConcatRows(_, _)
ConcatRows(frames, cols) ==
    IF frames = <<>>
    THEN <<>>
    ELSE [i \in DOMAIN frames[1].rows |-> Reindex(frames[1].rows[i], cols)]
            \o ConcatRows(Tail(frames), cols)

\* pd.concat(dataframes, ignore_index=True); it raises on an empty list.
Concat(frames) ==
    LET cols == UNION {frames[i].cols : i \in DOMAIN frames}
    IN  IF frames = <<>>
        THEN Raised
        ELSE [cols |-> cols, rows |-> ConcatRows(frames, cols)]

(***************************************************************************)
(* DataProcessor.read_and_validate_csv                                     *)
(***************************************************************************)
\* pd.read_csv(file_path, on_bad_lines='skip'): the table as parsed, or an
\* exception (the file is gone, or it holds no columns to parse).
ReadCsv(f) ==
    IF ~f.exists \/ f.cols = {}
    THEN Raised
    ELSE [cols |-> f.cols, rows |-> f.rows]

RequiredColumns == {"date", "kwh"}

HasRequiredColumns(cols) == \A col \in RequiredColumns : col \in cols

NoDrops == [invalid_dates |-> 0, invalid_kwh |-> 0]

\* A variant that records a rejected file in the wrong list.
RejectAsProcessed(name, inv, proc) ==
    [df |-> None, invalid_files |-> inv, processed_files |-> Append(proc, name),
     log |-> NoDrops]

\* self.invalid_files.append(file_path.name); return None
Reject(name, inv, proc) ==
    [df |-> None, invalid_files |-> Append(inv, name), processed_files |-> proc,
     log |-> NoDrops]

\* A variant that rejects a table the drops have left without rows.
AcceptNonEmpty(df, name, inv, proc, drops) ==
    IF df.rows = <<>>
    THEN Reject(name, inv, proc)
    ELSE [df |-> df, invalid_files |-> inv, processed_files |-> Append(proc, name),
          log |-> drops]

\* self.processed_files.append(file_path.name); return df
Accept(df, name, inv, proc, drops) ==
    [df |-> df, invalid_files |-> inv, processed_files |-> Append(proc, name),
     log |-> drops]

DropInvalidDates(df) ==
    IF CountNa(df, "date", NaT) > 0 THEN NotNa(df, "date", NaT) ELSE df

\* A variant that counts the invalid kWh values and keeps their rows.
KeepInvalidKwh(df) == df

DropInvalidKwh(df) ==
    IF CountNa(df, "kwh", NaN) > 0 THEN NotNa(df, "kwh", NaN) ELSE df

EnsureBuildingName(df, name) ==
    IF "building_name" \notin df.cols
    THEN AddColumn(df, "building_name", BuildingNameOf(name))
    ELSE df

\* The body of the try block: an outcome, or Raised (read_csv failed, or a
\* column that is looked up does not exist).
TryReadAndValidate(f, inv, proc) ==
    LET df == ReadCsv(f)
    IN  IF df = Raised THEN Raised
        ELSE IF ~HasRequiredColumns(df.cols) THEN Reject(f.name, inv, proc)
        ELSE IF Empty(df) THEN Reject(f.name, inv, proc)
        ELSE IF "date" \notin df.cols \/ "kwh" \notin df.cols THEN Raised
        ELSE LET dated   == CoerceDates(df)
                 df1     == DropInvalidDates(dated)
                 numbered == CoerceKwh(df1)
                 df2     == DropInvalidKwh(numbered)
                 df3     == EnsureBuildingName(df2, f.name)
                 drops   == [invalid_dates |-> CountNa(dated, "date", NaT),
                             invalid_kwh |-> CountNa(numbered, "kwh", NaN)]
             IN  Accept(df3, f.name, inv, proc, drops)

\* Variants of the handler: one that logs and returns None without recording
\* the file, one that lets the exception escape.
OnExceptionUnrecorded(name, inv, proc) ==
    [df |-> None, invalid_files |-> inv, processed_files |-> proc, log |-> NoDrops]

OnExceptionEscapes(name, inv, proc) == Raised

\* except FileNotFoundError / except Exception
OnException(name, inv, proc) == Reject(name, inv, proc)

ReadAndValidateCsv(f, inv, proc) ==
    LET out == TryReadAndValidate(f, inv, proc)
    IN  IF out = Raised THEN OnException(f.name, inv, proc) ELSE out

(***************************************************************************)
(* DataProcessor.find_csv_files, DataProcessor.ingest_data                 *)
(***************************************************************************)
FindCsvFiles(dir) == dir

\* A variant that keeps the tables of the call before.
StaleFrames(old) == old

\* dataframes = []
FreshFrames(old) == <<>>

\* A variant without the guard for an empty list.
CombineUnguarded(frames) == Concat(frames)

\* if not dataframes: pd.DataFrame()  else: pd.concat(dataframes, ...)
Combine(frames) == IF frames = <<>> THEN EmptyFrame ELSE Concat(frames)

Call(fn, val) == [fn |-> fn, val |-> val]

IngestStart ==
    /\ pc = "idle"
    /\ Len(history) < MaxRuns
    /\ csv_files' = FindCsvFiles(directory)
    /\ dataframes' = FreshFrames(dataframes)
    /\ idx' = 1
    /\ validated' = <<>>
    /\ pc' = "loop"
    /\ ret' = Call("find_csv_files", None)
    /\ UNCHANGED <<directory, df_combined, invalid_files, processed_files, log,
                   history>>

\* One iteration of the for loop, read_and_validate_csv included.
IngestFile ==
    /\ pc = "loop"
    /\ idx <= Len(csv_files)
    /\ LET out == ReadAndValidateCsv(csv_files[idx], invalid_files, processed_files)
       IN  /\ validated' = Append(validated, csv_files[idx].name)
           /\ IF out = Raised
              THEN /\ pc' = "aborted"
                   /\ ret' = Call("read_and_validate_csv", Raised)
                   /\ UNCHANGED <<invalid_files, processed_files, dataframes, idx,
                                  log>>
              ELSE /\ invalid_files' = out.invalid_files
                   /\ processed_files' = out.processed_files
                   /\ log' = out.log
                   /\ dataframes' = IF out.df # None
                                    THEN Append(dataframes, out.df)
                                    ELSE dataframes
                   /\ idx' = idx + 1
                   /\ pc' = "loop"
                   /\ ret' = Call("read_and_validate_csv", out.df)
    /\ UNCHANGED <<directory, df_combined, csv_files, history>>

IngestFinish ==
    /\ pc = "loop"
    /\ idx > Len(csv_files)
    /\ IF Combine(dataframes) = Raised
       THEN /\ pc' = "aborted"
            /\ ret' = Call("ingest_data", Raised)
            /\ UNCHANGED <<df_combined, history>>
       ELSE /\ df_combined' = Combine(dataframes)
            /\ history' = Append(history, df_combined')
            /\ pc' = "idle"
            /\ ret' = Call("ingest_data", df_combined')
    /\ UNCHANGED <<directory, invalid_files, processed_files, csv_files, idx,
                   dataframes, validated, log>>

(***************************************************************************)
(* Aggregation functions.  kwh values are integers in thousandths of a     *)
(* kWh; round(2) rounds to a multiple of HundredthUnits.                   *)
(***************************************************************************)
HundredthUnits == 10

Min(S) == CHOOSE x \in S : \A y \in S : x <= y

Max(S) == CHOOSE x \in S : \A y \in S : y <= x

RECURSIVE SortAsc(_)
SortAsc(S) == IF S = {} THEN <<>> ELSE <<Min(S)>> \o SortAsc(S \ {Min(S)})

\* The values of column val in the rows whose column key holds k, in row order.
GroupValues(df, key, k, val) ==
    LET rows == SelectSeq(df.rows, LAMBDA r : r[key] = k)
    IN  [i \in DOMAIN rows |-> rows[i][val]]

\* groupby(key) keeps no group for a missing key.
GroupKeys(df, key) ==
    {df.rows[i][key] : i \in DOMAIN df.rows} \ {Missing(key)}

\* df.groupby(key)[val].sum().reset_index() with columns renamed, sorted by key
GroupSum(df, key, val, keyname, sumname) ==
    IF key \notin df.cols \/ val \notin df.cols
    THEN Raised
    ELSE LET keys == SortAsc(GroupKeys(df, key))
         IN  [cols |-> {keyname, sumname},
              rows |-> [i \in DOMAIN keys |->
                          (keyname :> keys[i]) @@
                          (sumname :> SumSeq(GroupValues(df, key, keys[i], val)))]]

calculate_daily_totals(df) ==
    IF Empty(df)
    THEN EmptyFrame
    ELSE GroupSum(df, "date", "kwh", "date", "total_kwh")

\* df['date'] - pd.to_timedelta(df['date'].dt.dayofweek, unit='d')
WeekStart(ts) == ts - DayOfWeek(ts) * TicksPerDay

WithWeekStart(df) ==
    [cols |-> df.cols \cup {"week_start"},
     rows |-> [i \in DOMAIN df.rows |->
                 [c \in df.cols \cup {"week_start"} |->
                     IF c = "week_start"
                     THEN WeekStart(df.rows[i]["date"])
                     ELSE df.rows[i][c]]]]

calculate_weekly_aggregates(df) ==
    IF Empty(df)
    THEN EmptyFrame
    ELSE IF "date" \notin df.cols
    THEN Raised
    ELSE GroupSum(WithWeekStart(df), "week_start", "kwh", "week_start", "total_kwh")

\* A variant that adds week_start to the caller's table.
WeeklyInPlace(df) == IF Empty(df) THEN df ELSE WithWeekStart(df)

\* The caller's table after calculate_weekly_aggregates: week_start is
\* added to df.copy().
WeeklyArgument(df) == df

\* round(a / b, 2) for b > 0: the nearest multiple of a hundredth, a tie going
\* to the even one.
Round2Ratio(a, b) ==
    LET q   == (2 * a + HundredthUnits * b) \div (2 * HundredthUnits * b)
        tie == (2 * a + HundredthUnits * b) % (2 * HundredthUnits * b) = 0
    IN  HundredthUnits * (IF tie /\ q % 2 = 1 THEN q - 1 ELSE q)

Round2(x) == Round2Ratio(x, 1)

RECURSIVE ISqrtFrom(_, _)
ISqrtFrom(n, r) == IF (r + 1) * (r + 1) > n THEN r ELSE ISqrtFrom(n, r + 1)

\* The sample standard deviation (ddof = 1) rounded to 2 decimals; NaN for
\* fewer than two values.
RoundedStd(xs) ==
    LET n  == Len(xs)
        a  == n * SumSeq([i \in DOMAIN xs |-> xs[i] * xs[i]]) - SumSeq(xs) * SumSeq(xs)
        b  == n * (n - 1)
    IN  IF n < 2
        THEN NaN
        ELSE HundredthUnits *
             ((ISqrtFrom((4 * a) \div (HundredthUnits * HundredthUnits * b), 0) + 1)
                \div 2)

\* The ASCII order of the characters of the model.
CharOrder == <<" ", ".", "2", "A", "B", "C", "D", "E", "G", "I", "L", "M",
               "N", "S", "U", "V", "X", "Y", "_", "a", "b", "c", "d", "e",
               "g", "i", "l", "m", "n", "s", "u", "v", "x", "y">>

Ord(c) == CHOOSE i \in DOMAIN CharOrder : CharOrder[i] = c

RECURSIVE TextLess(_, _)
TextLess(s, t) ==
    IF t = <<>> THEN FALSE
    ELSE IF s = <<>> THEN TRUE
    ELSE IF Ord(s[1]) # Ord(t[1]) THEN Ord(s[1]) < Ord(t[1])
    ELSE TextLess(Tail(s), Tail(t))

RECURSIVE SortText(_)
SortText(S) ==
    IF S = {}
    THEN <<>>
    ELSE LET m == CHOOSE x \in S : \A y \in S : y = x \/ TextLess(x, y)
         IN  <<m>> \o SortText(S \ {m})

\* sort_values(field, ascending=False): rows of equal value keep their order.
RECURSIVE InsertDesc(_, _, _)
InsertDesc(sorted, row, field) ==
    IF sorted = <<>> THEN <<row>>
    ELSE IF sorted[1][field] >= row[field]
    THEN <<sorted[1]>> \o InsertDesc(Tail(sorted), row, field)
    ELSE <<row>> \o sorted

\* A variant that leaves the rows in the order of their groups.
Unsorted(rows, field) == rows

RECURSIVE SortDesc(_, _)
SortDesc(rows, field) ==
    IF rows = <<>>
    THEN <<>>
    ELSE InsertDesc(SortDesc(SubSeq(rows, 1, Len(rows) - 1), field),
                    rows[Len(rows)], field)

BuildingRow(df, name) ==
    LET xs == GroupValues(df, "building_name", name, "kwh")
    IN  [building_name |-> name,
         total   |-> Round2(SumSeq(xs)),
         average |-> Round2Ratio(SumSeq(xs), Len(xs)),
         min     |-> Round2(Min(Range(xs))),
         max     |-> Round2(Max(Range(xs))),
         std_dev |-> RoundedStd(xs),
         count   |-> Len(xs)]

building_wise_summary(df) ==
    IF Empty(df)
    THEN EmptyFrame
    ELSE IF "building_name" \notin df.cols \/ "kwh" \notin df.cols
    THEN Raised
    ELSE LET names == SortText(GroupKeys(df, "building_name"))
         IN  [cols |-> {"building_name", "total", "average", "min", "max",
                        "std_dev", "count"},
              rows |-> SortDesc([i \in DOMAIN names |-> BuildingRow(df, names[i])],
                                "total")]

\* A variant that takes the peak for the minimum and the minimum for the peak.
SlotRowSwapped(df, slot) ==
    LET xs == GroupValues(df, "time", slot, "kwh")
    IN  [time    |-> slot,
         average |-> Round2Ratio(SumSeq(xs), Len(xs)),
         peak    |-> Round2(Min(Range(xs))),
         minimum |-> Round2(Max(Range(xs))),
         count   |-> Len(xs)]

\* Time-slot labels are <<hour>>; their text order is the order of the hours.
SlotRow(df, slot) ==
    LET xs == GroupValues(df, "time", slot, "kwh")
    IN  [time    |-> slot,
         average |-> Round2Ratio(SumSeq(xs), Len(xs)),
         peak    |-> Round2(Max(Range(xs))),
         minimum |-> Round2(Min(Range(xs))),
         count   |-> Len(xs)]

hourly_peak_analysis(df) ==
    IF Empty(df) \/ "time" \notin df.cols
    THEN EmptyFrame
    ELSE IF "kwh" \notin df.cols
    THEN Raised
    ELSE LET hours == SortAsc({k[1] : k \in GroupKeys(df, "time")})
         IN  [cols |-> {"time", "average", "peak", "minimum", "count"},
              rows |-> SortDesc([i \in DOMAIN hours |-> SlotRow(df, <<hours[i]>>)],
                                "average")]

(***************************************************************************)
(* DataProcessor.get_data_summary                                          *)
(***************************************************************************)
EmptyDict == [k \in {} |-> 0]

Column(df, col) == [i \in DOMAIN df.rows |-> df.rows[i][col]]

\* A variant that reports the number of processed files as the number of
\* buildings.
SummaryCountsFiles(df, proc, inv) ==
    IF df = None
    THEN EmptyDict
    ELSE IF Empty(df)
    THEN EmptyDict
    ELSE [total_rows |-> Len(df.rows),
          buildings |-> Len(proc),
          date_range |-> <<DateOf(Min(Range(Column(df, "date")))),
                           DateOf(Max(Range(Column(df, "date"))))>>,
          total_consumption |-> SumSeq(Column(df, "kwh")),
          processed_files |-> Len(proc),
          invalid_files |-> Len(inv)]

get_data_summary(df, proc, inv) ==
    IF df = None
    THEN EmptyDict
    ELSE IF Empty(df)
    THEN EmptyDict
    ELSE [total_rows |-> Len(df.rows),
          buildings |-> Cardinality(GroupKeys(df, "building_name")),
          date_range |-> <<DateOf(Min(Range(Column(df, "date")))),
                           DateOf(Max(Range(Column(df, "date"))))>>,
          total_consumption |-> SumSeq(Column(df, "kwh")),
          processed_files |-> Len(proc),
          invalid_files |-> Len(inv)]

(***************************************************************************)
(* classes.py: MeterReading, Building, BuildingManager.  A float that is   *)
(* no whole number of thousandths is a fraction <<numerator, denominator>>.*)
(***************************************************************************)
\* datetime.strptime(row['date'].strftime('%Y-%m-%d'), '%Y-%m-%d'), float(kwh)
MeterReading(timestamp, kwh, time_slot) ==
    [timestamp |-> DateOf(timestamp) * TicksPerDay, kwh |-> kwh,
     time_slot |-> time_slot]

Kwhs(building) ==
    [i \in DOMAIN building.meter_readings |-> building.meter_readings[i].kwh]

calculate_total_consumption(building) == SumSeq(Kwhs(building))

calculate_average_consumption(building) ==
    IF building.meter_readings = <<>>
    THEN <<0, 1>>
    ELSE <<calculate_total_consumption(building), Len(building.meter_readings)>>

calculate_peak_consumption(building) ==
    IF building.meter_readings = <<>> THEN 0 ELSE Max(Range(Kwhs(building)))

calculate_min_consumption(building) ==
    IF building.meter_readings = <<>> THEN 0 ELSE Min(Range(Kwhs(building)))

\* A variant whose guard lets a single reading through to the sample
\* variance, a division by zero.
StdDevOffByOne(building) ==
    LET xs == Kwhs(building)
        n  == Len(xs)
    IN  IF n < 1
        THEN <<0, 1>>
        ELSE <<n * SumSeq([i \in DOMAIN xs |-> xs[i] * xs[i]]) - SumSeq(xs) * SumSeq(xs),
               n * (n - 1)>>

\* The value returned, given by its square: 0.0 is <<0, 1>>, and
\* statistics.stdev(xs) squared is the sample variance.
calculate_std_dev(building) ==
    LET xs == Kwhs(building)
        n  == Len(xs)
    IN  IF n < 2
        THEN <<0, 1>>
        ELSE <<n * SumSeq([i \in DOMAIN xs |-> xs[i] * xs[i]]) - SumSeq(xs) * SumSeq(xs),
               n * (n - 1)>>

\* Series.unique(): the values in the order of their first appearance.
RECURSIVE Unique(_)
Unique(s) ==
    IF s = <<>>
    THEN <<>>
    ELSE LET front == Unique(SubSeq(s, 1, Len(s) - 1))
         IN  IF s[Len(s)] \in Range(front) THEN front ELSE Append(front, s[Len(s)])

\* main: the Building of one name, filled with the corpus rows of that name
\* (no row equals a missing name).
FillBuilding(df, name) ==
    LET rows == SelectSeq(df.rows, LAMBDA r : name # <<>> /\ r["building_name"] = name)
    IN  [name |-> name,
         meter_readings |->
            [i \in DOMAIN rows |->
                MeterReading(rows[i]["date"], rows[i]["kwh"], rows[i]["time"])]]

\* main: the BuildingManager filled from the corpus; self.buildings is a
\* dict, here its values in the order they were added.  A column that is
\* looked up and does not exist raises KeyError.
FillManager(df) ==
    IF "building_name" \notin df.cols
    THEN Raised
    ELSE LET names == Unique(Column(df, "building_name"))
         IN  IF /\ \E i \in DOMAIN names : names[i] # <<>>
                /\ ("date" \notin df.cols \/ "kwh" \notin df.cols
                        \/ "time" \notin df.cols)
             THEN Raised
             ELSE [buildings |-> [i \in DOMAIN names |-> FillBuilding(df, names[i])]]

calculate_campus_total(self) ==
    SumSeq([i \in DOMAIN self.buildings |->
               calculate_total_consumption(self.buildings[i])])

\* max(items, key=total): the first of the buildings with the largest total.
get_highest_consumer(self) ==
    IF self.buildings = <<>>
    THEN [name |-> None, total |-> 0]
    ELSE LET total(i) == calculate_total_consumption(self.buildings[i])
             k == Min({i \in DOMAIN self.buildings :
                        \A j \in DOMAIN self.buildings : total(j) <= total(i)})
         IN  [name |-> self.buildings[k].name, total |-> total(k)]

get_lowest_consumer(self) ==
    IF self.buildings = <<>>
    THEN [name |-> None, total |-> 0]
    ELSE LET total(i) == calculate_total_consumption(self.buildings[i])
             k == Min({i \in DOMAIN self.buildings :
                        \A j \in DOMAIN self.buildings : total(i) <= total(j)})
         IN  [name |-> self.buildings[k].name, total |-> total(k)]

\* The dict returned, as its items in the order of self.buildings.
get_summary_table(self) ==
    [items |->
        [i \in DOMAIN self.buildings |->
            [name     |-> self.buildings[i].name,
             total    |-> calculate_total_consumption(self.buildings[i]),
             average  |-> calculate_average_consumption(self.buildings[i]),
             peak     |-> calculate_peak_consumption(self.buildings[i]),
             minimum  |-> calculate_min_consumption(self.buildings[i]),
             std_dev  |-> calculate_std_dev(self.buildings[i]),
             readings |-> Len(self.buildings[i].meter_readings)]]]

\* The numbers the campus report prints.
generate_campus_report(self) ==
    [buildings |-> Len(self.buildings),
     campus_total |-> calculate_campus_total(self),
     highest |-> get_highest_consumer(self),
     lowest |-> get_lowest_consumer(self)]

(***************************************************************************)
(* Calls on an idle processor.                                             *)
(***************************************************************************)
Observe(fn, val) ==
    /\ pc = "idle"
    /\ ret' = Call(fn, val)
    /\ UNCHANGED <<directory, df_combined, invalid_files, processed_files, pc,
                   csv_files, idx, dataframes, validated, log, history>>

GetDataSummary ==
    Observe("get_data_summary",
            get_data_summary(df_combined, processed_files, invalid_files))

CalculateDailyTotals ==
    /\ df_combined # None
    /\ Observe("calculate_daily_totals", calculate_daily_totals(df_combined))

CalculateWeeklyAggregates ==
    /\ pc = "idle"
    /\ df_combined # None
    /\ ret' = Call("calculate_weekly_aggregates",
                   calculate_weekly_aggregates(df_combined))
    /\ df_combined' = WeeklyArgument(df_combined)
    /\ UNCHANGED <<directory, invalid_files, processed_files, pc, csv_files, idx,
                   dataframes, validated, log, history>>

BuildingWiseSummary ==
    /\ df_combined # None
    /\ Observe("building_wise_summary", building_wise_summary(df_combined))

HourlyPeakAnalysis ==
    /\ df_combined # None
    /\ Observe("hourly_peak_analysis", hourly_peak_analysis(df_combined))

GetSummaryTable ==
    /\ df_combined # None
    /\ Observe("get_summary_table",
               IF FillManager(df_combined) = Raised
               THEN Raised
               ELSE get_summary_table(FillManager(df_combined)))

\* groupby('time')['kwh'].sum() at its idxmax(): the first slot with the
\* largest sum; idxmax raises on an empty series.
PeakTime(df) ==
    LET hours  == SortAsc({k[1] : k \in GroupKeys(df, "time")})
        sum(i) == SumSeq(GroupValues(df, "time", <<hours[i]>>, "kwh"))
        first  == Min({i \in DOMAIN hours : \A j \in DOMAIN hours : sum(j) <= sum(i)})
    IN  IF hours = <<>>
        THEN Raised
        ELSE [time |-> <<hours[first]>>, kwh |-> sum(first)]

NotAvailable == <<"N", "/", "A">>

\* main after processor.ingest_data(): the summary, the aggregation, the
\* dashboard and the exports (which catch their own errors), the report
\* generation and the executive summary; Raised when a step raises.
RunPipeline(df, proc, inv) ==
    LET summary          == get_data_summary(df, proc, inv)
        daily_totals     == calculate_daily_totals(df)
        weekly           == calculate_weekly_aggregates(df)
        building_summary == building_wise_summary(df)
        hourly_peaks     == hourly_peak_analysis(df)
        manager          == FillManager(df)
        peak             == IF "time" \in df.cols THEN PeakTime(df) ELSE None
    IN  IF summary = EmptyDict THEN Raised
        ELSE IF Raised \in {daily_totals, weekly, building_summary, hourly_peaks}
        THEN Raised
        ELSE IF manager = Raised THEN Raised
        ELSE IF building_summary.rows = <<>> THEN Raised
        ELSE IF peak = Raised THEN Raised
        ELSE [manager |-> manager,
              campus_report |-> generate_campus_report(manager),
              total_consumption |-> SumSeq(Column(df, "kwh")),
              highest_building |-> building_summary.rows[1],
              lowest_building |-> building_summary.rows[Len(building_summary.rows)],
              peak_time |-> IF peak = None THEN NotAvailable ELSE peak["time"],
              time_slots |-> Len(hourly_peaks.rows)]

MainPipeline ==
    /\ df_combined # None
    /\ Observe("main", RunPipeline(df_combined, processed_files, invalid_files))

Next ==
    \/ GetSummaryTable
    \/ MainPipeline
    \/ IngestStart
    \/ IngestFile
    \/ IngestFinish
    \/ GetDataSummary
    \/ CalculateDailyTotals
    \/ CalculateWeeklyAggregates
    \/ BuildingWiseSummary
    \/ HourlyPeakAnalysis

(***************************************************************************)
(* The input directories the model is checked over.                        *)
(***************************************************************************)
\* The rows a file can hold at line ri: one cell per column, from dom.
RowsAt(cols, fi, ri, dom) ==
    {[c \in cols \cup {"row_id"} |->
        CASE c = "date" -> d
          [] c = "Date" -> d
          [] c = "kwh" -> k
          [] c = "time" -> t
          [] c = "building_name" -> b
          [] OTHER -> <<fi, ri>>] :
     d \in dom.date, k \in dom.kwh, t \in dom.time, b \in dom.building_name}

RECURSIVE RowSeqs(_, _, _, _)
RowSeqs(cols, fi, n, dom) ==
    IF n = 0
    THEN {<<>>}
    ELSE {Append(s, r) : s \in RowSeqs(cols, fi, n - 1, dom),
                         r \in RowsAt(cols, fi, n, dom)}

\* The files named FileNames[fi] with header cols and at most max rows.
FilesWith(cols, fi, max, dom) ==
    {[name |-> FileNames[fi], exists |-> TRUE, cols |-> cols \cup {"row_id"},
      rows |-> rows] : rows \in UNION {RowSeqs(cols, fi, n, dom) : n \in 0..max}}

\* A file that is gone when it is read, and a file with nothing to parse.
BrokenFiles(fi) ==
    {[name |-> FileNames[fi], exists |-> e, cols |-> {}, rows |-> <<>>] :
        e \in BOOLEAN}

GoodCells == [date |-> {<<0, 0>>}, kwh |-> {<<12>>}, time |-> {<<8>>},
              building_name |-> {<<"X">>}]

MixedCells == [date |-> {<<>>, <<0, 0>>}, kwh |-> {<<>>, <<12>>}, time |-> {<<8>>},
               building_name |-> {<<"X">>}]

\* Files of every kind the validator tells apart.
SchemaFiles(fi) ==
    BrokenFiles(fi)
        \cup FilesWith({"date"}, fi, MaxFileRows, GoodCells)
        \cup FilesWith({"kwh"}, fi, MaxFileRows, GoodCells)
        \cup FilesWith({"Date", "kwh"}, fi, MaxFileRows, GoodCells)
        \cup FilesWith({"date", "kwh"}, fi, MaxFileRows, MixedCells)

RECURSIVE SchemaDirs(_)
SchemaDirs(n) ==
    IF n = 0
    THEN {<<>>}
    ELSE {Append(d, f) : d \in SchemaDirs(n - 1), f \in SchemaFiles(n)}

InitProcessor ==
    /\ df_combined = None
    /\ invalid_files = <<>>
    /\ processed_files = <<>>
    /\ pc = "idle"
    /\ csv_files = <<>>
    /\ idx = 0
    /\ dataframes = <<>>
    /\ validated = <<>>
    /\ log = NoDrops
    /\ history = <<>>
    /\ ret = Call("__init__", None)

\* One file with both required columns, with or without its own
\* building_name column, whose cells may be unparseable, negative or empty.
RowCells == [date |-> {<<>>, <<0, 0>>}, kwh |-> {<<>>, <<-1>>, <<12>>},
             time |-> {<<8>>}, building_name |-> {<<>>, <<"X">>}]

RowsDirs ==
    {<<f>> : f \in FilesWith({"date", "kwh"}, 1, MaxRows, RowCells)
                    \cup FilesWith({"date", "kwh", "building_name"}, 1, MaxRows,
                                   RowCells)}

\* One file of valid rows on the days around a week boundary: day 0 is a
\* Monday, day 6 the Sunday of its week, day 7 the next Monday.
Days == {0, 6, 7}

DateCells == [date |-> {<<d, t>> : d \in Days, t \in 0..(TicksPerDay - 1)},
              kwh |-> {<<4>>, <<12>>}, time |-> {<<8>>},
              building_name |-> {<<"X">>}]

DatesDirs == {<<f>> : f \in FilesWith({"date", "kwh"}, 1, MaxRows, DateCells)}

\* One file of valid rows of two buildings, with or without a time column
\* whose cells may be empty; 5 and 12 are no multiples of a hundredth.
GroupCells == [date |-> {<<0, 0>>}, kwh |-> {<<5>>, <<12>>},
               time |-> {<<>>, <<8>>, <<9>>},
               building_name |-> {<<"X">>, <<"Y">>}]

GroupsDirs ==
    {<<f>> : f \in FilesWith({"date", "kwh", "building_name"}, 1, MaxRows,
                             [GroupCells EXCEPT !.time = {<<8>>}])
                    \cup FilesWith({"date", "kwh", "building_name", "time"}, 1,
                                   MaxRows, GroupCells)}

\* One file under each of the names of FileNames, without a building_name
\* column or with one whose cells are no title-cased text.
NameCells == [date |-> {<<0, 0>>}, kwh |-> {<<12>>}, time |-> {<<8>>},
              building_name |-> {<<"X">>, <<"a", "_", "b">>}]

NamesDirs ==
    {<<f>> : f \in UNION {FilesWith({"date", "kwh"}, fi, MaxRows, NameCells)
                            \cup FilesWith({"date", "kwh", "building_name"}, fi,
                                           MaxRows, NameCells) :
                          fi \in DOMAIN FileNames}}

\* Up to MaxFiles files of up to MaxRows - 1 rows, any of them with an
\* unparseable date, and files that are rejected.
OrderCells == [date |-> {<<>>, <<0, 0>>}, kwh |-> {<<12>>}, time |-> {<<8>>},
               building_name |-> {<<"X">>}]

OrderFiles(fi) ==
    {[name |-> FileNames[fi], exists |-> FALSE, cols |-> {}, rows |-> <<>>]}
        \cup {f \in FilesWith({"date"}, fi, 1, GoodCells) : f.rows # <<>>}
        \cup FilesWith({"date", "kwh"}, fi, MaxRows - 1, OrderCells)

RECURSIVE OrderDirs(_)
OrderDirs(n) ==
    IF n = 0
    THEN {<<>>}
    ELSE {Append(d, f) : d \in OrderDirs(n - 1), f \in OrderFiles(n)}

\* One file with a time column and its own building_name column, whose
\* building_name cells may be empty.
UnnamedCells == [date |-> {<<0, 0>>}, kwh |-> {<<5>>, <<12>>}, time |-> {<<8>>},
                 building_name |-> {<<>>, <<"X">>}]

UnnamedDirs ==
    {<<f>> : f \in FilesWith({"date", "kwh", "time", "building_name"}, 1, MaxRows,
                             UnnamedCells)}

Init ==
    /\ directory \in UNION {SchemaDirs(n) : n \in 0..MaxFiles}
    /\ InitProcessor

InitRows ==
    /\ directory \in RowsDirs
    /\ InitProcessor

InitDates ==
    /\ directory \in DatesDirs
    /\ InitProcessor

InitGroups ==
    /\ directory \in GroupsDirs
    /\ InitProcessor

InitNames ==
    /\ directory \in NamesDirs
    /\ InitProcessor

InitOrder ==
    /\ directory \in UNION {OrderDirs(n) : n \in 0..MaxFiles}
    /\ InitProcessor

InitUnnamed ==
    /\ directory \in UnnamedDirs
    /\ InitProcessor

\* Files of every kind, up to MaxFiles of them.
Spec == Init /\ [][Next]_vars

\* ingest_data runs to its end once called: the run is sequential and
\* synchronous, with no suspension point.
FairSpec == Spec /\ WF_vars(IngestFile) /\ WF_vars(IngestFinish)

\* One file of up to MaxRows rows, some of them unusable.
SpecRows == InitRows /\ [][Next]_vars

\* One file of up to MaxRows valid rows with dates and times of day.
SpecDates == InitDates /\ [][Next]_vars

\* One file of up to MaxRows valid rows of two buildings and two time slots.
SpecGroups == InitGroups /\ [][Next]_vars

\* One file of up to MaxRows valid rows under every file name of the model.
SpecNames == InitNames /\ [][Next]_vars

\* Up to MaxFiles files of several rows each, some files rejected.
SpecOrder == InitOrder /\ [][Next]_vars

\* One file of up to MaxRows rows with a time slot, some without a building.
SpecUnnamed == InitUnnamed /\ [][Next]_vars

(***************************************************************************)
(* Properties.                                                             *)
(***************************************************************************)
IsFrame(v) == "rows" \in DOMAIN v

Names(files) == [i \in DOMAIN files |-> files[i].name]

Count(s, x) == Cardinality({i \in DOMAIN s : s[i] = x})

\* The file the loop iteration that just ended was about.
LastFile == csv_files[idx - 1]

ValidatorReturned ==
    pc = "loop" /\ idx > 1 /\ ret.fn = "read_and_validate_csv"

\* C1: every invocation of read_and_validate_csv appends the file's name to
\* exactly one of processed_files and invalid_files and leaves the other list
\* as it was; it returns a table iff the name went to processed_files and
\* None iff it went to invalid_files.
C1_ExactlyOneList ==
    [][(pc = "loop" /\ idx <= Len(csv_files)) =>
        /\ ret'.fn = "read_and_validate_csv"
        /\ \/ /\ processed_files' = Append(processed_files, csv_files[idx].name)
              /\ invalid_files' = invalid_files
              /\ IsFrame(ret'.val)
           \/ /\ invalid_files' = Append(invalid_files, csv_files[idx].name)
              /\ processed_files' = processed_files
              /\ ret'.val = None]_vars

\* Both outcomes have happened: a read error was recorded as invalid and a
\* later file was accepted.
C1_Witness ==
    /\ ValidatorReturned
    /\ idx = 3
    /\ ~csv_files[1].exists
    /\ IsFrame(ret.val)
    /\ Len(invalid_files) = 1
    /\ Len(processed_files) = 1

\* A header without the column date or without the column kwh.
LacksRequiredColumn(f) == f.exists /\ ("date" \notin f.cols \/ "kwh" \notin f.cols)

RowIds(df) == {df.rows[i]["row_id"] : i \in DOMAIN df.rows}

\* C2: a file whose header lacks date or kwh is rejected: the validator
\* returns no rows, invalid_files grows by exactly one, processed_files is
\* unchanged, and the corpus ingest_data builds holds none of the file's rows.
C2_MissingColumnRejected ==
    /\ [][(pc = "loop" /\ idx <= Len(csv_files)
              /\ LacksRequiredColumn(csv_files[idx])) =>
            /\ ret' = Call("read_and_validate_csv", None)
            /\ Len(invalid_files') = Len(invalid_files) + 1
            /\ processed_files' = processed_files
            /\ dataframes' = dataframes]_vars
    /\ [](pc = "idle" /\ df_combined # None =>
            \A i \in DOMAIN directory :
                LacksRequiredColumn(directory[i]) =>
                    \A id \in RowIds(df_combined) : id[1] # i)

\* An ingestion has ended whose directory held a file with a row and the
\* header Date, kwh, and an accepted file with a row.
C2_Witness ==
    /\ pc = "idle"
    /\ df_combined # None
    /\ df_combined.rows # <<>>
    /\ \E i \in DOMAIN directory :
          /\ directory[i].cols = {"Date", "kwh", "row_id"}
          /\ directory[i].rows # <<>>

\* A raw cell that parses: every unparseable cell of the model is empty.
Parses(cell) == cell # <<>>

Usable(row) == Parses(row["date"]) /\ Parses(row["kwh"])

\* C3: the table accepted from a file holds exactly the parsed rows whose date
\* and kwh both parse, in their order, with both cells coerced; the logged
\* date drops plus kwh drops (kwh counted among the rows that survived the
\* date check) equal the number of rows with an unparseable date or kwh.
C3_AcceptedRows ==
    (ValidatorReturned /\ IsFrame(ret.val)) =>
        LET kept == SelectSeq(LastFile.rows, Usable)
        IN  /\ Len(ret.val.rows) = Len(kept)
            /\ \A i \in DOMAIN kept :
                  /\ ret.val.rows[i]["row_id"] = kept[i]["row_id"]
                  /\ ret.val.rows[i]["date"] = ToDatetime(kept[i]["date"])
                  /\ ret.val.rows[i]["kwh"] = ToNumeric(kept[i]["kwh"])
                  /\ ret.val.rows[i]["date"] # NaT
                  /\ ret.val.rows[i]["kwh"] # NaN
            /\ log.invalid_dates =
                  Cardinality({i \in DOMAIN LastFile.rows :
                                  ~Parses(LastFile.rows[i]["date"])})
            /\ log.invalid_kwh =
                  Cardinality({i \in DOMAIN LastFile.rows :
                                  /\ Parses(LastFile.rows[i]["date"])
                                  /\ ~Parses(LastFile.rows[i]["kwh"])})
            /\ log.invalid_dates + log.invalid_kwh =
                  Cardinality({i \in DOMAIN LastFile.rows : ~Usable(LastFile.rows[i])})

\* A file was accepted that lost its first row to the date and its second to
\* the kwh, and kept its third.
C3_Witness ==
    /\ ValidatorReturned
    /\ IsFrame(ret.val)
    /\ Len(LastFile.rows) = 3
    /\ ~Parses(LastFile.rows[1]["date"])
    /\ ~Parses(LastFile.rows[2]["kwh"])
    /\ log = [invalid_dates |-> 1, invalid_kwh |-> 1]
    /\ Len(ret.val.rows) = 1

\* C4: every record of the unified corpus has a valid date, a finite
\* non-negative kwh and a non-empty building_name, whatever the input files,
\* files with their own building_name column included.
C4_MeterRecordInvariant ==
    (pc = "idle" /\ df_combined # None) =>
        \A i \in DOMAIN df_combined.rows :
            /\ df_combined.rows[i]["date"] # NaT
            /\ df_combined.rows[i]["kwh"] # NaN
            /\ df_combined.rows[i]["kwh"] >= 0
            /\ df_combined.rows[i]["building_name"] # <<>>

\* A file the validator accepts: it can be read, has both required columns
\* and at least one parsed row.
Acceptable(f) == f.exists /\ RequiredColumns \subseteq f.cols /\ f.rows # <<>>

Accepted(dir) == {i \in DOMAIN dir : Acceptable(dir[i])}

\* C5: ingest_data never aborts on a rejected file: every discovered file is
\* passed to the validator exactly once, in discovery order, the call ends,
\* and after the first ingest_data of a processor every discovered name is in
\* exactly one of processed_files and invalid_files.
C5_IngestNeverAborts ==
    /\ [](pc # "aborted")
    /\ []((pc = "idle" /\ history # <<>>) =>
            /\ validated = Names(directory)
            /\ Len(history) = 1 =>
                  \A i \in DOMAIN directory :
                      Count(processed_files, directory[i].name)
                          + Count(invalid_files, directory[i].name) = 1)
    /\ (pc = "loop") ~> (pc = "idle")

\* The first ingest_data has ended on a directory whose first file was
\* rejected and whose second file was accepted.
C5_Witness ==
    /\ pc = "idle"
    /\ Len(history) = 1
    /\ Len(directory) = 2
    /\ invalid_files = <<directory[1].name>>
    /\ processed_files = <<directory[2].name>>

AggregationFunctions ==
    {"calculate_daily_totals", "calculate_weekly_aggregates",
     "building_wise_summary", "hourly_peak_analysis"}

\* C6: when no file is accepted (no file at all, or every file rejected),
\* ingest_data returns the empty corpus without raising, and each of the four
\* aggregation functions returns an empty table for it without raising.
C6_EmptyCorpus ==
    Accepted(directory) = {} =>
        /\ pc # "aborted"
        /\ (pc = "idle" /\ history # <<>>) =>
              /\ df_combined = EmptyFrame
              /\ ret.fn \in AggregationFunctions \cup {"ingest_data"} =>
                    ret.val # Raised
              /\ ret.fn \in AggregationFunctions => ret.val = EmptyFrame

\* Two files were discovered and both rejected, and an aggregation function
\* has been applied to the corpus.
C6_Witness ==
    /\ Len(directory) = 2
    /\ Accepted(directory) = {}
    /\ pc = "idle"
    /\ history # <<>>
    /\ ret.fn = "building_wise_summary"

SameBag(s, t) ==
    /\ Len(s) = Len(t)
    /\ \A x \in Range(s) \cup Range(t) : Count(s, x) = Count(t, x)

\* C7: every later ingest_data on the unchanged directory returns a corpus
\* equal, as a multiset of records, to the first one, so it holds no row of an
\* earlier run twice; the four aggregation functions return the same on both.
C7_IngestIdempotent ==
    \A k \in 2..Len(history) :
        /\ history[k].cols = history[1].cols
        /\ SameBag(history[k].rows, history[1].rows)
        /\ calculate_daily_totals(history[k]) = calculate_daily_totals(history[1])
        /\ calculate_weekly_aggregates(history[k])
              = calculate_weekly_aggregates(history[1])
        /\ building_wise_summary(history[k]) = building_wise_summary(history[1])
        /\ hourly_peak_analysis(history[k]) = hourly_peak_analysis(history[1])

\* ingest_data has run twice on a directory of two accepted files.
C7_Witness ==
    /\ Len(history) = 2
    /\ Len(directory) = 2
    /\ Len(history[1].rows) = 2
    /\ pc = "idle"

NoDuplicates(s) == \A i, j \in DOMAIN s : s[i] = s[j] => i = j

\* C8: after any sequence of ingest_data calls no name occurs twice in
\* processed_files or in invalid_files, none occurs in both, and the counts
\* get_data_summary reports are the numbers of files the ingestion that built
\* the corpus accepted and rejected.
C8_PerRunSets ==
    pc = "idle" =>
        /\ NoDuplicates(processed_files)
        /\ NoDuplicates(invalid_files)
        /\ Range(processed_files) \cap Range(invalid_files) = {}
        /\ (ret.fn = "get_data_summary" /\ ret.val # EmptyDict) =>
              /\ ret.val.processed_files = Cardinality(Accepted(directory))
              /\ ret.val.invalid_files
                    = Len(directory) - Cardinality(Accepted(directory))

\* The kwh of the records of df that column key (mapped by F) puts in group g.
GroupTotal(df, F(_), g) ==
    LET rows == SelectSeq(df.rows, LAMBDA r : F(r["date"]) = g)
    IN  SumSeq([i \in DOMAIN rows |-> rows[i]["kwh"]])

CalendarDates(df) == {DateOf(df.rows[i]["date"]) : i \in DOMAIN df.rows}

\* C9: for a non-empty corpus calculate_daily_totals returns one row per
\* calendar date of the corpus, holding the sum of the kwh of all records on
\* that calendar date, whatever their times of day, in strictly ascending
\* date order.
C9_DailyTotals ==
    (pc = "idle" /\ ret.fn = "calculate_daily_totals" /\ ~Empty(df_combined)) =>
        LET out == ret.val.rows
        IN  /\ Len(out) = Cardinality(CalendarDates(df_combined))
            /\ \A d \in CalendarDates(df_combined) :
                  \E i \in DOMAIN out :
                      /\ DateOf(out[i]["date"]) = d
                      /\ out[i]["total_kwh"] = GroupTotal(df_combined, DateOf, d)
            /\ \A i, j \in DOMAIN out :
                  i < j => DateOf(out[i]["date"]) < DateOf(out[j]["date"])

\* The Monday of the week of a timestamp, as a calendar day.
MondayOf(ts) == DateOf(ts) - (DateOf(ts) % 7)

Weeks(df) == {MondayOf(df.rows[i]["date"]) : i \in DOMAIN df.rows}

\* C10: for a non-empty corpus calculate_weekly_aggregates maps each record
\* to a Monday at most 6 days before its date, and returns one row per week
\* of the corpus holding the sum of the kwh of that week's records, in
\* ascending week_start order.
C10_WeeklyAggregates ==
    (pc = "idle" /\ ret.fn = "calculate_weekly_aggregates" /\ ~Empty(df_combined)) =>
        LET out == ret.val.rows
        IN  /\ \A i \in DOMAIN df_combined.rows :
                  LET ts == df_combined.rows[i]["date"]
                  IN  /\ DayOfWeek(WeekStart(ts)) = 0
                      /\ DateOf(ts) - DateOf(WeekStart(ts)) \in 0..6
            /\ Len(out) = Cardinality(Weeks(df_combined))
            /\ \A w \in Weeks(df_combined) :
                  \E i \in DOMAIN out :
                      /\ DateOf(out[i]["week_start"]) = w
                      /\ out[i]["total_kwh"] = GroupTotal(df_combined, MondayOf, w)
            /\ \A i, j \in DOMAIN out :
                  i < j => out[i]["week_start"] < out[j]["week_start"]

\* The building names of the records of df that have one.
BuildingNames(df) ==
    {df.rows[i]["building_name"] : i \in DOMAIN df.rows} \ {<<>>}

RecordsOf(df, name) == {i \in DOMAIN df.rows : df.rows[i]["building_name"] = name}

\* The kwh of the records of df at the positions S, added up.
RECURSIVE SumOver(_, _)
SumOver(df, S) ==
    IF S = {}
    THEN 0
    ELSE LET i == CHOOSE j \in S : TRUE
         IN  df.rows[i]["kwh"] + SumOver(df, S \ {i})

\* r is x rounded to 2 decimals, whichever way a tie goes.
Rounds(x, r) ==
    /\ r % HundredthUnits = 0
    /\ 2 * (r - x) <= HundredthUnits
    /\ 2 * (x - r) <= HundredthUnits

\* C11: for a non-empty corpus building_wise_summary returns one row per
\* distinct building_name; the row's total is the exact sum of the building's
\* raw kwh values, reported to 2 decimals (so equal to it when the values have
\* 2 decimals), its count is the number of the building's records,
\* min <= average <= max, and the rows are ordered non-increasing in total.
C11_BuildingSummary ==
    (pc = "idle" /\ ret.fn = "building_wise_summary" /\ ~Empty(df_combined)) =>
        LET out == ret.val.rows
        IN  /\ {out[i].building_name : i \in DOMAIN out} = BuildingNames(df_combined)
            /\ Len(out) = Cardinality(BuildingNames(df_combined))
            /\ \A i \in DOMAIN out :
                  LET recs == RecordsOf(df_combined, out[i].building_name)
                      sum  == SumOver(df_combined, recs)
                  IN  /\ Rounds(sum, out[i].total)
                      /\ sum % HundredthUnits = 0 => out[i].total = sum
                      /\ out[i].count = Cardinality(recs)
                      /\ out[i].min <= out[i].average
                      /\ out[i].average <= out[i].max
            /\ \A i, j \in DOMAIN out : i < j => out[i].total >= out[j].total

\* A summary of two buildings was returned whose first row is the building
\* of the last record, not of the first, and whose first total is a sum that
\* had to be rounded.
C11_Witness ==
    /\ pc = "idle"
    /\ ret.fn = "building_wise_summary"
    /\ ~Empty(df_combined)
    /\ Len(ret.val.rows) = 2
    /\ ret.val.rows[1].building_name = <<"Y">>
    /\ df_combined.rows[1]["building_name"] = <<"X">>
    /\ ret.val.rows[1].total > ret.val.rows[2].total
    /\ ret.val.rows[1].total
          # SumOver(df_combined, RecordsOf(df_combined, <<"Y">>))

\* C12: a building with exactly one reading never makes the summary fail:
\* building_wise_summary returns a complete row for it (total, average, min,
\* max and count defined) whose std_dev is absent, and
\* Building.calculate_std_dev returns 0.0 for fewer than two readings.
C12_SingleReadingStdDev ==
    /\ (pc = "idle" /\ ret.fn = "building_wise_summary" /\ ~Empty(df_combined)) =>
          /\ IsFrame(ret.val)
          /\ \A name \in BuildingNames(df_combined) :
                Cardinality(RecordsOf(df_combined, name)) = 1 =>
                    \E i \in DOMAIN ret.val.rows :
                        LET row == ret.val.rows[i]
                            x   == SumOver(df_combined, RecordsOf(df_combined, name))
                        IN  /\ row.building_name = name
                            /\ row.std_dev = NaN
                            /\ row.count = 1
                            /\ Rounds(x, row.total)
                            /\ Rounds(x, row.average)
                            /\ Rounds(x, row.min)
                            /\ Rounds(x, row.max)
    /\ (pc = "idle" /\ ret.fn = "get_summary_table" /\ ret.val # Raised) =>
          \A i \in DOMAIN ret.val.items :
              ret.val.items[i].readings < 2 => ret.val.items[i].std_dev = <<0, 1>>

\* The statistics of two Building objects were returned, one with a single
\* reading and one with two readings that differ.
C12_Witness ==
    /\ pc = "idle"
    /\ ret.fn = "get_summary_table"
    /\ ret.val # Raised
    /\ Len(ret.val.items) = 2
    /\ ret.val.items[1].readings = 1
    /\ ret.val.items[2].readings = 2
    /\ ret.val.items[2].std_dev[1] > 0
    /\ building_wise_summary(df_combined).rows[1].std_dev # NaN
    /\ building_wise_summary(df_combined).rows[2].std_dev = NaN

\* The name without its extension .csv.
WithoutExtension(name) == SubSeq(name, 1, Len(name) - 4)

IsLetter(c) == IsLower(c) \/ IsUpper(c)

\* Every word of s (the text between underscores) is all letters or has no
\* letter after its first character.
PlainWords(s) ==
    \A i \in DOMAIN s : (i > 1 /\ IsLetter(s[i])) => (IsLetter(s[i - 1]) \/ s[i - 1] = "_")

\* Underscores become spaces; the first character of every word is
\* upper-cased and the others are lower-cased.
TitleCaseWords(s) ==
    [i \in DOMAIN s |->
        IF s[i] = "_" THEN " "
        ELSE IF i = 1 \/ s[i - 1] = "_" THEN ToUpper(s[i])
        ELSE ToLower(s[i])]

ScienceLab2 == <<"S", "c", "i", "e", "n", "c", "e", " ", "L", "a", "b", " ", "2">>

AdminBuilding == <<"A", "d", "m", "i", "n", " ", "B", "u", "i", "l", "d", "i", "n", "g">>

\* The file of the directory a row came from, and the row as parsed.
SourceFile(row) ==
    CHOOSE f \in Range(directory) : f.name = FileNames[row["row_id"][1]]

SourceRow(row) == SourceFile(row).rows[row["row_id"][2]]

\* What C13 says of the building names of a table of accepted rows.
NamedAsClaimed(rows) ==
    \A i \in DOMAIN rows :
        LET f    == SourceFile(rows[i])
            stem == WithoutExtension(f.name)
            bn   == rows[i]["building_name"]
        IN  IF "building_name" \in f.cols
            THEN bn = SourceRow(rows[i])["building_name"]
            ELSE /\ \A j \in DOMAIN rows :
                      SourceFile(rows[j]) = f => rows[j]["building_name"] = bn
                 /\ PlainWords(stem) => bn = TitleCaseWords(stem)
                 /\ f.name = FileNames[5] => bn = ScienceLab2
                 /\ f.name = FileNames[6] => bn = AdminBuilding

TimeSlots(df) ==
    IF "time" \in df.cols
    THEN {df.rows[i]["time"] : i \in DOMAIN df.rows} \ {<<>>}
    ELSE {}

SlotRecords(df, slot) == {i \in DOMAIN df.rows : df.rows[i]["time"] = slot}

KwhAt(df, S) == {df.rows[i]["kwh"] : i \in S}

\* r is a / b rounded to 2 decimals, whichever way a tie goes (b > 0).
RoundsRatio(a, b, r) ==
    /\ r % HundredthUnits = 0
    /\ 2 * (r * b - a) <= HundredthUnits * b
    /\ 2 * (a - r * b) <= HundredthUnits * b

\* C14: hourly_peak_analysis returns an empty table when the corpus has no
\* time column or no time value; otherwise one row per distinct time slot
\* with the mean, max, min (to 2 decimals) and count of the kwh of that
\* slot's records, ordered non-increasing in the mean.
C14_HourlyPeaks ==
    (pc = "idle" /\ ret.fn = "hourly_peak_analysis") =>
        /\ IsFrame(ret.val)
        /\ IF TimeSlots(df_combined) = {}
           THEN ret.val.rows = <<>>
           ELSE LET out == ret.val.rows
                IN  /\ Len(out) = Cardinality(TimeSlots(df_combined))
                    /\ \A slot \in TimeSlots(df_combined) :
                          \E i \in DOMAIN out :
                              LET recs == SlotRecords(df_combined, slot)
                              IN  /\ out[i].time = slot
                                  /\ out[i].count = Cardinality(recs)
                                  /\ RoundsRatio(SumOver(df_combined, recs),
                                                 Cardinality(recs), out[i].average)
                                  /\ Rounds(Max(KwhAt(df_combined, recs)), out[i].peak)
                                  /\ Rounds(Min(KwhAt(df_combined, recs)), out[i].minimum)
                    /\ \A i, j \in DOMAIN out :
                          i < j => out[i].average >= out[j].average

\* An analysis of two slots was returned for a corpus that also holds a
\* record without a time value; the later slot has the larger mean and
\* comes first, and its peak and minimum differ.
C14_Witness ==
    /\ pc = "idle"
    /\ ret.fn = "hourly_peak_analysis"
    /\ Len(ret.val.rows) = 2
    /\ Len(df_combined.rows) = 3
    /\ \E i \in DOMAIN df_combined.rows : df_combined.rows[i]["time"] = <<>>
    /\ ret.val.rows[1].time = <<9>>
    /\ ret.val.rows[1].average > ret.val.rows[2].average

\* The corpus has a time column and no time value, and the analysis was
\* returned.
C14_WitnessNoValue ==
    /\ pc = "idle"
    /\ ret.fn = "hourly_peak_analysis"
    /\ "time" \in df_combined.cols
    /\ Len(df_combined.rows) = 2
    /\ TimeSlots(df_combined) = {}

Contribution(f) == IF Acceptable(f) THEN SelectSeq(f.rows, Usable) ELSE <<>>

\* The row ids of the contributions of the files of dir, in discovery order.
RECURSIVE ContributedIds(_)
ContributedIds(dir) ==
    IF dir = <<>>
    THEN <<>>
    ELSE ContributedIds(SubSeq(dir, 1, Len(dir) - 1))
            \o [i \in DOMAIN Contribution(dir[Len(dir)]) |->
                    Contribution(dir[Len(dir)])[i]["row_id"]]

\* C16: the unified corpus is the concatenation of the accepted tables in
\* file-discovery order: all rows of an earlier file precede all rows of a
\* later file, rows of one file keep their relative order, rejected files
\* contribute nothing, and the corpus is as long as the accepted tables
\* together.
C16_ConcatenationOrder ==
    (pc = "idle" /\ history # <<>>) =>
        LET rows == df_combined.rows
            ids  == [i \in DOMAIN rows |-> rows[i]["row_id"]]
        IN  /\ ids = ContributedIds(FindCsvFiles(directory))
            /\ \A i, j \in DOMAIN ids :
                  i < j => \/ ids[i][1] < ids[j][1]
                           \/ ids[i][1] = ids[j][1] /\ ids[i][2] < ids[j][2]
            /\ \A i \in DOMAIN ids : Acceptable(directory[ids[i][1]])
            /\ Len(rows) = SumSeq([k \in DOMAIN dataframes |-> Len(dataframes[k].rows)])
            /\ Len(dataframes) = Cardinality(Accepted(directory))

\* Two files were accepted: the first kept both its rows, the second lost
\* its first row and kept its second.
C16_Witness ==
    /\ pc = "idle"
    /\ history # <<>>
    /\ Len(directory) = 2
    /\ Len(dataframes) = 2
    /\ Len(directory[2].rows) = 2
    /\ Len(df_combined.rows) = 3
    /\ df_combined.rows[3]["row_id"] = <<2, 2>>

\* C17: row-level drops never invalidate a file: a file with both required
\* columns and at least one parsed row is registered as processed however
\* many of its rows are dropped, also when all of them are (the accepted
\* table then has no row and adds nothing to the corpus); a file whose parsed
\* table has no row is rejected.
C17_DropsKeepFile ==
    /\ [][(pc = "loop" /\ idx <= Len(csv_files)) =>
            LET f == csv_files[idx]
            IN  /\ Acceptable(f) =>
                      /\ processed_files' = Append(processed_files, f.name)
                      /\ invalid_files' = invalid_files
                      /\ IsFrame(ret'.val)
                      /\ Len(ret'.val.rows) = Len(SelectSeq(f.rows, Usable))
                      /\ dataframes' = Append(dataframes, ret'.val)
                /\ (f.exists /\ RequiredColumns \subseteq f.cols /\ f.rows = <<>>) =>
                      /\ invalid_files' = Append(invalid_files, f.name)
                      /\ processed_files' = processed_files
                      /\ ret'.val = None]_vars
    /\ []((pc = "idle" /\ Len(history) = 1) =>
            /\ Len(df_combined.rows)
                  = SumSeq([i \in DOMAIN directory |-> Len(Contribution(directory[i]))])
            /\ \A i \in DOMAIN directory :
                  Acceptable(directory[i]) =>
                      /\ Count(processed_files, directory[i].name) = 1
                      /\ Count(invalid_files, directory[i].name) = 0)

\* A file of three rows, none of them usable, was registered as processed
\* and the corpus built from it has the columns and no row.
C17_Witness ==
    /\ pc = "idle"
    /\ Len(history) = 1
    /\ Len(directory[1].rows) = 3
    /\ \A i \in DOMAIN directory[1].rows : ~Usable(directory[1].rows[i])
    /\ processed_files = <<directory[1].name>>
    /\ invalid_files = <<>>
    /\ df_combined.rows = <<>>
    /\ "kwh" \in df_combined.cols

\* The corpus the last ingest_data returned.
LastCorpus == history[Len(history)]

\* C18: the four aggregation functions are pure: a call of any of them, in
\* any order and any number of times, leaves the corpus (its rows and its
\* columns: no week_start is added), processed_files and invalid_files as
\* they were, and returns what it returns for the corpus as ingest_data
\* built it, whatever was called before.
C18_AggregationPure ==
    /\ [][ret'.fn \in AggregationFunctions =>
            UNCHANGED <<directory, df_combined, invalid_files, processed_files, pc,
                        csv_files, idx, dataframes, validated, log, history>>]_vars
    /\ []((pc = "idle" /\ history # <<>>) =>
            /\ df_combined = LastCorpus
            /\ "week_start" \notin df_combined.cols
            /\ ret.fn = "calculate_daily_totals" =>
                  ret.val = calculate_daily_totals(LastCorpus)
            /\ ret.fn = "calculate_weekly_aggregates" =>
                  ret.val = calculate_weekly_aggregates(LastCorpus)
            /\ ret.fn = "building_wise_summary" =>
                  ret.val = building_wise_summary(LastCorpus)
            /\ ret.fn = "hourly_peak_analysis" =>
                  ret.val = hourly_peak_analysis(LastCorpus))

\* The weekly aggregates of a corpus of records in two weeks were returned.
C18_Witness ==
    /\ pc = "idle"
    /\ ret.fn = "calculate_weekly_aggregates"
    /\ history # <<>>
    /\ Len(df_combined.rows) = 3
    /\ Len(ret.val.rows) >= 2
    /\ \E i \in DOMAIN ret.val.rows : ret.val.rows[i]["week_start"] = 7 * TicksPerDay

\* The values of column col over the rows of a result table, added up.
ColumnSum(rows, col) == SumSeq([i \in DOMAIN rows |-> rows[i][col]])

\* C19: aggregation conserves the corpus: for every non-empty corpus the
\* daily totals, the weekly totals and the unrounded per-building totals
\* each add up to the total kwh of the corpus, and the per-building reading
\* counts add up to the number of records.
C19_Conservation ==
    (pc = "idle" /\ df_combined # None /\ ~Empty(df_combined)) =>
        LET total == SumOver(df_combined, DOMAIN df_combined.rows)
        IN  /\ ret.fn = "calculate_daily_totals" =>
                  ColumnSum(ret.val.rows, "total_kwh") = total
            /\ ret.fn = "calculate_weekly_aggregates" =>
                  ColumnSum(ret.val.rows, "total_kwh") = total
            /\ ret.fn = "building_wise_summary" =>
                  /\ ColumnSum(ret.val.rows, "count") = Len(df_combined.rows)
                  /\ SumSeq([i \in DOMAIN ret.val.rows |->
                                SumOver(df_combined,
                                        RecordsOf(df_combined,
                                                  ret.val.rows[i].building_name))])
                        = total

\* C20: main treats time as an optional column: for a non-empty corpus built
\* from accepted files without a time column main runs every step to its
\* end without raising, the executive summary naming the peak time N/A,
\* just as hourly_peak_analysis returns an empty table for that corpus.
C20_MainWithoutTime ==
    (pc = "idle" /\ ret.fn = "main" /\ ~Empty(df_combined)
        /\ "time" \notin df_combined.cols) =>
        /\ hourly_peak_analysis(df_combined) = EmptyFrame
        /\ ret.val # Raised
        /\ ret.val.peak_time = NotAvailable
        /\ ret.val.time_slots = 0

\* C21: with the Building objects filled from the corpus records of each
\* building and added to a BuildingManager, every building's total, average,
\* peak, minimum and number of readings are the total, average, max, min
\* and count of its row of building_wise_summary (to 2 decimals),
\* calculate_campus_total is the total kwh of the corpus, and the highest and
\* the lowest consumer have the totals of the first and the last row of
\* building_wise_summary.
C21_ObjectModelAgrees ==
    (pc = "idle" /\ ret.fn = "get_summary_table" /\ ret.val # Raised
        /\ ~Empty(df_combined)) =>
        LET items   == ret.val.items
            out     == building_wise_summary(df_combined).rows
            manager == FillManager(df_combined)
        IN  /\ out # <<>>
            /\ \A i \in DOMAIN items :
                  \E j \in DOMAIN out :
                      /\ out[j].building_name = items[i].name
                      /\ Rounds(items[i].total, out[j].total)
                      /\ RoundsRatio(items[i].average[1], items[i].average[2],
                                     out[j].average)
                      /\ Rounds(items[i].peak, out[j].max)
                      /\ Rounds(items[i].minimum, out[j].min)
                      /\ items[i].readings = out[j].count
            /\ calculate_campus_total(manager)
                  = SumOver(df_combined, DOMAIN df_combined.rows)
            /\ Rounds(get_highest_consumer(manager).total, out[1].total)
            /\ Rounds(get_lowest_consumer(manager).total, out[Len(out)].total)

====
